---- MODULE Spec2Model ----
(***************************************************************************)
(* A model of suzaku's aws-detect command (src/cmd/aws_detect.rs): the     *)
(* field extractor, the profile loader, the output sinks, the detection    *)
(* summary and the report renderer.                                        *)
(*                                                                         *)
(* Strings are sequences of tokens.  A token is either one of the          *)
(* characters the code inspects (".", ":", "'", " ", "T", "Z") or a word   *)
(* containing none of them, so that starts_with, strip_prefix, replace,    *)
(* splitn and trim act on tokens exactly as they act on characters.        *)
(* Option<T> is a sequence of length 0 (None) or 1 (Some).                 *)
(***************************************************************************)
EXTENDS Integers, Sequences, FiniteSets, TLC

VARIABLES
    arg,            \* get_value_from_event: the arguments of the call
    ret,            \* get_value_from_event: what the call returned
    pc,             \* aws_detect: where the run is
    profile_file,   \* the lines of config/default_profile.yaml
    geo_search,     \* aws_detect: Option<GeoIPSearch>
    profile,        \* aws_detect: Vec<(String, String)>
    options,        \* the command line: geo_ip, output, output_type, raw_output
    rules,          \* aws_detect: Vec<Rule>
    wrt,            \* aws_detect: Writers
    summary,        \* aws_detect: DetectionSummary
    cur,            \* the scan: the event being matched, None between events
    calls,          \* write_record calls that returned
    seen,           \* the hits of each event scanned so far, in scan order
    failed,         \* the sinks a write has failed on
    exit,           \* the process: "running", "returned" or "panic"
    terminal_width, \* the report: the width terminal_size() gives
    report          \* the report: what each section printed

extractVars == <<arg, ret>>
profileVars == <<pc, profile_file, geo_search, profile>>
scanVars == <<rules, wrt, summary, cur, calls, seen, failed>>
reportVars == <<terminal_width, report>>
vars == <<arg, ret, pc, profile_file, geo_search, profile, options, rules, wrt,
          summary, cur, calls, seen, failed, exit, terminal_width, report>>

----------------------------------------------------------------------------
(* Option *)

None == <<>>
Some(x) == <<x>>
IsSome(o) == o # <<>>
Unwrap(o) == o[1]

\* F applied to the value of e, e evaluated once.
With(e, F(_)) == CHOOSE y \in {F(v) : v \in {e}} : TRUE

----------------------------------------------------------------------------
(* str *)

S(word) == <<word>>

StartsWith(s, p) ==
    /\ Len(s) >= Len(p)
    /\ SubSeq(s, 1, Len(p)) = p

StripPrefix(s, p) == SubSeq(s, Len(p) + 1, Len(s))

\* str::replace(pat, to): the non-overlapping matches, left to right, each
\* replaced; the text produced is not scanned again.
RECURSIVE Replace(_, _, _)
Replace(s, pat, to) ==
    IF s = <<>> THEN <<>>
    ELSE IF StartsWith(s, pat)
         THEN to \o Replace(StripPrefix(s, pat), pat, to)
         ELSE <<Head(s)>> \o Replace(Tail(s), pat, to)

Space == " "

RECURSIVE TrimStart(_)
TrimStart(s) == IF s # <<>> /\ Head(s) = Space THEN TrimStart(Tail(s)) ELSE s

RECURSIVE TrimEnd(_)
TrimEnd(s) ==
    IF s # <<>> /\ s[Len(s)] = Space THEN TrimEnd(SubSeq(s, 1, Len(s) - 1)) ELSE s

\* str::trim
Trim(s) == TrimEnd(TrimStart(s))

RECURSIVE TrimStartMatches(_, _)
TrimStartMatches(s, c) ==
    IF s # <<>> /\ Head(s) = c THEN TrimStartMatches(Tail(s), c) ELSE s

RECURSIVE TrimEndMatches(_, _)
TrimEndMatches(s, c) ==
    IF s # <<>> /\ s[Len(s)] = c
    THEN TrimEndMatches(SubSeq(s, 1, Len(s) - 1), c)
    ELSE s

\* str::trim_matches(c)
TrimMatches(s, c) == TrimEndMatches(TrimStartMatches(s, c), c)

\* The index of the first token c of s, 0 when there is none.
RECURSIVE Find(_, _)
Find(s, c) ==
    IF s = <<>> THEN 0
    ELSE IF Head(s) = c THEN 1
    ELSE LET i == Find(Tail(s), c) IN IF i = 0 THEN 0 ELSE i + 1

\* str::splitn(2, c): one part when c does not occur, else the text before
\* the first c and the text after it.
SplitN2(s, c) ==
    LET i == Find(s, c)
    IN  IF i = 0 THEN <<s>> ELSE <<SubSeq(s, 1, i - 1), SubSeq(s, i + 1, Len(s))>>

Dot == S(".")
SigmaPrefix == <<"sigma", ".">>
Placeholder == S("-")

\* str::to_lowercase, word by word: the words of this model that hold an
\* upper-case letter are the Debug names of sigma_rust's Level and Status.
LowerWord(w) ==
    CASE w = "Critical" -> "critical"
      [] w = "High" -> "high"
      [] w = "Medium" -> "medium"
      [] w = "Low" -> "low"
      [] w = "Informational" -> "informational"
      [] w = "Stable" -> "stable"
      [] w = "Test" -> "test"
      [] w = "T" -> "t"
      [] w = "Z" -> "z"
      [] OTHER -> w

ToLowercase(s) == [i \in 1..Len(s) |-> LowerWord(s[i])]

\* format!("{:?}", e) of a field-less enum value: its name.
DebugEnum(e) == S(e)

\* format!("{:?}", v) of a Vec<String>: ["a", "b"].
RECURSIVE DebugItems(_)
DebugItems(v) ==
    IF v = <<>> THEN <<>>
    ELSE <<"\"">> \o Head(v) \o <<"\"">>
         \o (IF Len(v) > 1 THEN <<",", " ">> ELSE <<>>)
         \o DebugItems(Tail(v))

DebugVec(v) == <<"[">> \o DebugItems(v) \o <<"]">>

----------------------------------------------------------------------------
(* sigma_rust::Event and serde_json::Value: one payload, a function from   *)
(* field names to strings.                                                 *)

HasField(event, key) == key \in DOMAIN event
EventGet(event, key) == IF HasField(event, key) THEN Some(event[key]) ELSE None

\* GeoIPSearch, the geo service: convert(ip) is Some for the addresses it
\* resolves; get_asn, get_city and get_country read the record found.
GeoConvert(geo, ip) == IF ip \in DOMAIN geo THEN Some(ip) ELSE None
GeoGetAsn(geo, ip) == geo[ip].asn
GeoGetCity(geo, ip) == geo[ip].city
GeoGetCountry(geo, ip) == geo[ip].country

----------------------------------------------------------------------------
(* get_value_from_event *)

\* A call returns a string or panics (Option::unwrap on None).
Ret(v) == [panicked |-> FALSE, value |-> v]
Panicked == [panicked |-> TRUE, value |-> <<>>]

\* GeoShortCircuit without the early return of the raw address: an address
\* the geo service does not resolve falls through to the dispatch.
GeoShortCircuit_NoEarlyReturn(key, event, geo_ip) ==
    IF IsSome(geo_ip) /\ HasField(event, S("sourceIPAddress"))
    THEN LET geo == Unwrap(geo_ip)
             found == GeoConvert(geo, event[S("sourceIPAddress")])
         IN  IF IsSome(found)
             THEN IF key = S("SrcASN") THEN Some(Ret(GeoGetAsn(geo, Unwrap(found))))
                  ELSE IF key = S("SrcCity") THEN Some(Ret(GeoGetCity(geo, Unwrap(found))))
                  ELSE IF key = S("SrcCountry") THEN Some(Ret(GeoGetCountry(geo, Unwrap(found))))
                  ELSE None
             ELSE None
    ELSE None

\* lines 676-691: Some(result) when the geo block returns, None when control
\* falls through to the dispatch on the key.
GeoShortCircuit(key, event, geo_ip) ==
    IF IsSome(geo_ip) /\ HasField(event, S("sourceIPAddress"))
    THEN LET geo == Unwrap(geo_ip)
             ip == event[S("sourceIPAddress")]
             found == GeoConvert(geo, ip)
         IN  IF IsSome(found)
             THEN IF key = S("SrcASN") THEN Some(Ret(GeoGetAsn(geo, Unwrap(found))))
                  ELSE IF key = S("SrcCity") THEN Some(Ret(GeoGetCity(geo, Unwrap(found))))
                  ELSE IF key = S("SrcCountry") THEN Some(Ret(GeoGetCountry(geo, Unwrap(found))))
                  ELSE None
             ELSE Some(Ret(ip))
    ELSE None

\* lines 692-702: the key starts with "."
EventField(key, event) ==
    LET k == StripPrefix(key, Dot)
        value == EventGet(event, k)
    IN  IF IsSome(value)
        THEN IF k = S("eventTime")
             THEN Ret(Replace(Replace(Unwrap(value), S("T"), S(" ")), S("Z"), <<>>))
             ELSE Ret(Unwrap(value))
        ELSE Ret(Placeholder)

\* lines 703-729: the key starts with "sigma."
RuleField(key, rule) ==
    LET k == Replace(key, SigmaPrefix, <<>>)
    IN  IF k = S("title") THEN Ret(rule.title)
        ELSE IF k = S("id") /\ IsSome(rule.id) THEN Ret(Unwrap(rule.id))
        ELSE IF k = S("status") /\ IsSome(rule.status)
             THEN Ret(ToLowercase(DebugEnum(Unwrap(rule.status))))
        ELSE IF k = S("author") /\ IsSome(rule.author) THEN Ret(Unwrap(rule.author))
        ELSE IF k = S("description") /\ IsSome(rule.description)
             THEN Ret(Unwrap(rule.description))
        ELSE IF k = S("references") /\ IsSome(rule.references)
             THEN Ret(DebugVec(Unwrap(rule.references)))
        ELSE IF k = S("date") /\ IsSome(rule.date) THEN Ret(Unwrap(rule.date))
        ELSE IF k = S("modified") /\ IsSome(rule.modified) THEN Ret(Unwrap(rule.modified))
        ELSE IF k = S("tags") /\ IsSome(rule.tags) THEN Ret(DebugVec(Unwrap(rule.tags)))
        ELSE IF k = S("falsepositives") /\ IsSome(rule.falsepositives)
             THEN Ret(DebugVec(Unwrap(rule.falsepositives)))
        ELSE IF k = S("level")
             THEN IF IsSome(rule.level)
                  THEN Ret(ToLowercase(DebugEnum(Unwrap(rule.level))))
                  ELSE Panicked
        ELSE Ret(Placeholder)

\* lines 692-732: the dispatch on the key.
Dispatch(key, event, rule) ==
    IF StartsWith(key, Dot) THEN EventField(key, event)
    ELSE IF StartsWith(key, SigmaPrefix) THEN RuleField(key, rule)
    ELSE Ret(Placeholder)

get_value_from_event(key, event, rule, geo_ip) ==
    LET short == GeoShortCircuit(key, event, geo_ip)
    IN  IF IsSome(short) THEN Unwrap(short) ELSE Dispatch(key, event, rule)

----------------------------------------------------------------------------
(* load_profile *)

SyntheticEntries ==
    <<  <<S("SrcASN"), S("SrcASN")>>,
        <<S("SrcCity"), S("SrcCity")>>,
        <<S("SrcCountry"), S("SrcCountry")>>  >>

\* lines 657-659: the entry of a line that split in two.
ProfileEntry(parts) == <<Trim(parts[1]), TrimMatches(Trim(parts[2]), "'")>>

\* The loop with the geo check dropped: the synthetic entries follow every
\* SrcIP entry.
RECURSIVE LoadLoop_AlwaysExpands(_, _, _)
LoadLoop_AlwaysExpands(lines, geo, acc) ==
    IF lines = <<>> THEN acc
    ELSE LET parts == SplitN2(Head(lines), ":")
         IN  IF Len(parts) = 2
             THEN LET entry == ProfileEntry(parts)
                      pushed == Append(acc, entry)
                  IN  LoadLoop_AlwaysExpands(Tail(lines), geo,
                          IF entry[1] = S("SrcIP")
                          THEN pushed \o SyntheticEntries
                          ELSE pushed)
             ELSE LoadLoop_AlwaysExpands(Tail(lines), geo, acc)

\* lines 653-666: the loop over the lines, `acc` the profile so far.
RECURSIVE LoadLoop(_, _, _)
LoadLoop(lines, geo, acc) ==
    IF lines = <<>> THEN acc
    ELSE LET parts == SplitN2(Head(lines), ":")
         IN  IF Len(parts) = 2
             THEN LET entry == ProfileEntry(parts)
                      pushed == Append(acc, entry)
                  IN  LoadLoop(Tail(lines), geo,
                          IF entry[1] = S("SrcIP") /\ IsSome(geo)
                          THEN pushed \o SyntheticEntries
                          ELSE pushed)
             ELSE LoadLoop(Tail(lines), geo, acc)

load_profile(lines, geo) == LoadLoop(lines, geo, <<>>)

----------------------------------------------------------------------------
(* OutputType and Writers *)

\* OutputType::from_u8 with codes 4 and 5 exchanged.
from_u8_Swapped(value) ==
    CASE value = 1 -> Some("Csv")
      [] value = 2 -> Some("Json")
      [] value = 3 -> Some("Jsonl")
      [] value = 4 -> Some("CsvAndJsonl")
      [] value = 5 -> Some("CsvAndJson")
      [] OTHER -> None

\* lines 47-56
from_u8(value) ==
    CASE value = 1 -> Some("Csv")
      [] value = 2 -> Some("Json")
      [] value = 3 -> Some("Jsonl")
      [] value = 4 -> Some("CsvAndJson")
      [] value = 5 -> Some("CsvAndJsonl")
      [] OTHER -> None

\* Option::unwrap_or
UnwrapOr(o, default) == IF IsSome(o) THEN Unwrap(o) ELSE default

\* A sink that is open: what it has been given, and how often it was flushed.
Sink(out) == [out |-> out, flushes |-> 0]
Put(sink, item) == Some([Unwrap(sink) EXCEPT !.out = Append(@, item)])

NoWriters == [csv |-> None, json |-> None, jsonl |-> None, std |-> None]

Header(prof) == [i \in 1..Len(prof) |-> prof[i][1]]

\* lines 233-293: the writers aws_detect opens, the CSV header written.  The
\* header of the terminal sink goes to a buffer that is never printed.
OpenWriters(opts, prof) ==
    IF opts.output
    THEN LET output_type == UnwrapOr(from_u8(opts.output_type), "Csv")
         IN  [csv |-> IF output_type \in {"Csv", "CsvAndJson", "CsvAndJsonl"}
                      THEN Some(Sink(<<Header(prof)>>)) ELSE None,
              json |-> IF output_type \in {"Json", "CsvAndJson"}
                       THEN Some(Sink(<<>>)) ELSE None,
              jsonl |-> IF output_type \in {"Jsonl", "CsvAndJsonl"}
                        THEN Some(Sink(<<>>)) ELSE None,
              std |-> None]
    ELSE [NoWriters EXCEPT !.std = Some(Sink(<<>>))]

----------------------------------------------------------------------------
(* write_record *)

\* lines 193-200
abbreviate_level(level) ==
    IF level = S("critical") THEN S("crit")
    ELSE IF level = S("medium") THEN S("med")
    ELSE IF level = S("informational") THEN S("info")
    ELSE level

\* Iterator::position(|(k, _)| k == "Level")
RECURSIVE Position(_, _, _)
Position(prof, name, i) ==
    IF i > Len(prof) THEN None
    ELSE IF prof[i][1] = name THEN Some(i)
    ELSE Position(prof, name, i + 1)

\* lines 93-103
LevelColor(level) ==
    IF level = S("crit") THEN "Red"
    ELSE IF level = S("high") THEN "Orange"
    ELSE IF level = S("med") THEN "Yellow"
    ELSE IF level = S("low") THEN "Green"
    ELSE "White"

\* Overlay without the filter on the expression: every column of the profile
\* is laid over the payload.
RECURSIVE Overlay_EveryColumn(_, _, _, _, _, _)
Overlay_EveryColumn(obj, prof, i, event, rule, geo) ==
    IF i > Len(prof) THEN obj
    ELSE LET value == get_value_from_event(prof[i][2], event, rule, geo).value
             k == prof[i][1]
             set == [x \in DOMAIN obj \cup {k} |-> IF x = k THEN value ELSE obj[x]]
         IN  Overlay_EveryColumn(set, prof, i + 1, event, rule, geo)

\* lines 133-141: the event payload with the sigma columns laid over it, from
\* column i on.
RECURSIVE Overlay(_, _, _, _, _, _)
Overlay(obj, prof, i, event, rule, geo) ==
    IF i > Len(prof) THEN obj
    ELSE IF StartsWith(prof[i][2], SigmaPrefix)
    THEN LET value == get_value_from_event(prof[i][2], event, rule, geo).value
             k == prof[i][1]
             set == [x \in DOMAIN obj \cup {k} |-> IF x = k THEN value ELSE obj[x]]
         IN  Overlay(set, prof, i + 1, event, rule, geo)
    ELSE Overlay(obj, prof, i + 1, event, rule, geo)

\* lines 149-153: the BTreeMap of the profile columns, a later column
\* replacing an earlier one of the same name.
RECURSIVE ProfileMap(_, _, _, _, _, _)
ProfileMap(map, prof, i, event, rule, geo) ==
    IF i > Len(prof) THEN map
    ELSE LET value == get_value_from_event(prof[i][2], event, rule, geo).value
             k == prof[i][1]
         IN  ProfileMap([x \in DOMAIN map \cup {k} |-> IF x = k THEN value ELSE map[x]],
                        prof, i + 1, event, rule, geo)

EmptyObject == [x \in {} |-> <<>>]

\* What a call leaves behind: the writers, the caller's payload, whether it
\* panicked, and the sinks whose write failed.
Outcome(w, json, panicked, fails) ==
    [wrt |-> w, json |-> json, panicked |-> panicked, failed |-> fails]

\* lines 83-122: the terminal sink.  Every result of a write is dropped with
\* .ok(), a failed print included.  Returns <<writers, record>>.
WriteStd(prof, record, w, bad) ==
    IF IsSome(w.std)
    THEN With(Position(prof, S("Level"), 1), LAMBDA level_index :
         With(IF IsSome(level_index)
              THEN abbreviate_level(ToLowercase(record[Unwrap(level_index)]))
              ELSE S("info"),
         LAMBDA level :
         With(IF IsSome(level_index)
              THEN [record EXCEPT ![Unwrap(level_index)] = level]
              ELSE record,
         LAMBDA rec :
         <<IF "std" \in bad THEN w
           ELSE [w EXCEPT !.std = Put(w.std, [cols |-> rec, color |-> LevelColor(level)])],
           rec>>)))
    ELSE <<w, record>>

\* lines 130-159 and 162-190: one JSON sink, `name` "json" or "jsonl".
JsonItem(name, prof, event, json, rule, geo, raw_output) ==
    [fmt |-> IF name = "json" THEN "pretty" ELSE "compact",
     obj |-> IF raw_output
             THEN Overlay(json, prof, 1, event, rule, geo)
             ELSE ProfileMap(EmptyObject, prof, 1, event, rule, geo)]

\* The calls on the three file sinks, in the order of the code; `w` holds
\* the writers after the terminal sink and `rec` the record it left.
\* write_record_RawReturnsEarly has the raw-mode return moved out of the JSON
\* sink's block: in raw mode the call returns after the CSV sink.
FileSinks_RawReturnsEarly(prof, event, json, rule, w, rec, geo, raw_output, bad, fails) ==
    IF IsSome(w.csv) /\ "csv" \in bad THEN Outcome(w, json, TRUE, fails)
    ELSE With(IF IsSome(w.csv) THEN [w EXCEPT !.csv = Put(w.csv, rec)] ELSE w,
         LAMBDA w2 :
    IF raw_output THEN Outcome(w2, json, FALSE, fails)
    ELSE IF IsSome(w2.json) /\ "json" \in bad THEN Outcome(w2, json, TRUE, fails)
    ELSE With(IF IsSome(w2.json)
              THEN [w2 EXCEPT !.json = Put(w2.json,
                        JsonItem("json", prof, event, json, rule, geo, raw_output))]
              ELSE w2,
         LAMBDA w3 :
    IF IsSome(w3.jsonl) /\ "jsonl" \in bad THEN Outcome(w3, json, TRUE, fails)
    ELSE IF IsSome(w3.jsonl)
         THEN Outcome([w3 EXCEPT !.jsonl = Put(w3.jsonl,
                          JsonItem("jsonl", prof, event, json, rule, geo, raw_output))],
                      json, FALSE, fails)
         ELSE Outcome(w3, json, FALSE, fails)))

\* lines 124-190: the CSV sink, the JSON sink (which returns in raw mode) and
\* the JSONL sink; every write is unwrapped.
FileSinks(prof, event, json, rule, w, rec, geo, raw_output, bad, fails) ==
    IF IsSome(w.csv) /\ "csv" \in bad THEN Outcome(w, json, TRUE, fails)
    ELSE With(IF IsSome(w.csv) THEN [w EXCEPT !.csv = Put(w.csv, rec)] ELSE w,
         LAMBDA w2 :
    IF IsSome(w2.json) /\ "json" \in bad THEN Outcome(w2, json, TRUE, fails)
    ELSE With(IF IsSome(w2.json)
              THEN [w2 EXCEPT !.json = Put(w2.json,
                        JsonItem("json", prof, event, json, rule, geo, raw_output))]
              ELSE w2,
         LAMBDA w3 :
    IF IsSome(w2.json) /\ raw_output THEN Outcome(w3, json, FALSE, fails)
    ELSE IF IsSome(w3.jsonl) /\ "jsonl" \in bad THEN Outcome(w3, json, TRUE, fails)
    ELSE IF IsSome(w3.jsonl)
         THEN Outcome([w3 EXCEPT !.jsonl = Put(w3.jsonl,
                          JsonItem("jsonl", prof, event, json, rule, geo, raw_output))],
                      json, FALSE, fails)
         ELSE Outcome(w3, json, FALSE, fails)))

\* lines 67-191.  `bad` is the set of sinks whose write fails during this
\* call: the terminal sink drops the error, the file sinks unwrap it.
write_record(prof, event, json, rule, w0, geo, raw_output, bad) ==
    With([i \in 1..Len(prof) |-> get_value_from_event(prof[i][2], event, rule, geo)],
         LAMBDA values :
    IF \E i \in 1..Len(prof) : values[i].panicked THEN Outcome(w0, json, TRUE, {})
    ELSE With(WriteStd(prof, [i \in 1..Len(prof) |-> values[i].value], w0, bad),
         LAMBDA std :
    FileSinks(prof, event, json, rule, std[1], std[2], geo, raw_output, bad,
              {x \in bad : IsSome(w0[x])})))

----------------------------------------------------------------------------
(* DetectionSummary and the two operations of the scan that update it      *)

\* lines 25-35, DetectionSummary::default(): the fields the report reads.
DefaultSummary ==
    [author_titles |-> [a \in {} |-> {}],
     timestamps |-> <<>>,
     total_events |-> 0,
     event_with_hits |-> 0,
     level_with_hits |-> [l \in {} |-> [t \in {} |-> 0]]]

\* The authors a rule credits: its author field split at the commas, each
\* name trimmed.
RECURSIVE SplitAuthors(_)
SplitAuthors(s) ==
    LET parts == SplitN2(s, ",")
    IN  IF Len(parts) = 1 THEN {Trim(s)}
        ELSE {Trim(parts[1])} \cup SplitAuthors(parts[2])

Credited(rule) == IF IsSome(rule.author) THEN SplitAuthors(Unwrap(rule.author)) ELSE {}

\* One more in a map of counters.
Bump(map, k) ==
    [x \in DOMAIN map \cup {k} |->
        IF x = k THEN (IF k \in DOMAIN map THEN map[k] + 1 ELSE 1) ELSE map[x]]

\* Once per scanned event.
record_event(sum) == [sum EXCEPT !.total_events = @ + 1]

\* record_hit that counts every rule match as an event with hits.
record_hit_PerMatch(sum, first_hit, event_time, level, rule_title, authors) ==
    [sum EXCEPT
        !.event_with_hits = @ + 1,
        !.level_with_hits =
            [l \in DOMAIN @ \cup {level} |->
                IF l = level
                THEN Bump(IF level \in DOMAIN @ THEN @[level] ELSE [t \in {} |-> 0],
                          rule_title)
                ELSE @[l]],
        !.author_titles =
            [a \in DOMAIN @ \cup authors |->
                (IF a \in DOMAIN @ THEN @[a] ELSE {})
                \cup (IF a \in authors THEN {rule_title} ELSE {})],
        !.timestamps = Append(@, event_time)]

\* Once per (event, matching rule) pair; first_hit says that the event had no
\* hit before this one.
record_hit(sum, first_hit, event_time, level, rule_title, authors) ==
    [sum EXCEPT
        !.event_with_hits = IF first_hit THEN @ + 1 ELSE @,
        !.level_with_hits =
            [l \in DOMAIN @ \cup {level} |->
                IF l = level
                THEN Bump(IF level \in DOMAIN @ THEN @[level] ELSE [t \in {} |-> 0],
                          rule_title)
                ELSE @[l]],
        !.author_titles =
            [a \in DOMAIN @ \cup authors |->
                (IF a \in DOMAIN @ THEN @[a] ELSE {})
                \cup (IF a \in authors THEN {rule_title} ELSE {})],
        !.timestamps = Append(@, event_time)]

----------------------------------------------------------------------------
(* The report *)

Range(seq) == {seq[i] : i \in 1..Len(seq)}

\* Iterator::sum
RECURSIVE SumValues(_)
SumValues(f) ==
    IF DOMAIN f = {} THEN 0
    ELSE LET k == CHOOSE x \in DOMAIN f : TRUE
         IN  f[k] + SumValues([x \in DOMAIN f \ {k} |-> f[x]])

\* HashMap::iter(): the entries, each once, in an order the map chooses.
RECURSIVE IterOrders(_)
IterOrders(map) ==
    IF DOMAIN map = {} THEN {<<>>}
    ELSE UNION {{<< <<k, map[k]>> >> \o rest :
                    rest \in IterOrders([x \in DOMAIN map \ {k} |-> map[x]])} :
                k \in DOMAIN map}

\* slice::sort_by: stable, ascending in the key; entries of equal keys stay in
\* the order they came in.
RECURSIVE StableSort(_, _)
StableSort(seq, key) ==
    IF seq = <<>> THEN <<>>
    ELSE LET front == StableSort(SubSeq(seq, 1, Len(seq) - 1), key)
             last == seq[Len(seq)]
             n == Cardinality({i \in 1..Len(front) : key[front[i]] <= key[last]})
         IN  SubSeq(front, 1, n) \o <<last>> \o SubSeq(front, n + 1, Len(front))

\* lines 336-346
table_column_num(width) ==
    IF width <= 105 THEN 2
    ELSE IF width < 140 THEN 3
    ELSE IF width < 175 THEN 4
    ELSE IF width <= 210 THEN 5
    ELSE 6

\* lines 348-352
authors_count(author_titles) ==
    [a \in DOMAIN author_titles |-> Cardinality(author_titles[a])]

\* str::len of a string of tokens
RECURSIVE StrLen(_)
StrLen(s) == IF s = <<>> THEN 0 ELSE Len(Head(s)) + StrLen(Tail(s))

\* lines 571-582: the cell of one author, a name longer than 27 cut to its
\* first 24 bytes and "...": `shown` is the number of bytes of the name in the
\* cell, `ellipsis` whether "..." follows them.
AuthorCell(entry) ==
    [author |-> entry[1],
     shown |-> IF StrLen(entry[1]) <= 27 THEN StrLen(entry[1]) ELSE 24,
     ellipsis |-> StrLen(entry[1]) > 27,
     count |-> entry[2]]

\* lines 555-561
AuthorRows(authors_num, columns) ==
    IF authors_num <= columns THEN 1
    ELSE IF authors_num % 4 # 0 THEN (authors_num \div columns) + 1
    ELSE authors_num \div columns

\* lines 568-587: the cells of column x, the author at y * columns + x in
\* row y.
AuthorColumn(sorted_authors, div, columns, x) ==
    LET rows == Cardinality({y \in 0..(div - 1) : y * columns + x < Len(sorted_authors)})
    IN  [y \in 1..rows |-> AuthorCell(sorted_authors[(y - 1) * columns + x + 1])]

\* lines 548-604.  `iter` is rule_author_counter.iter(), in the order the map
\* gave it.  The value is stored_by_column, the columns of the one row of the
\* table.
print_detected_rule_authors(iter, columns) ==
    With(StableSort(iter, [e \in Range(iter) |-> 0 - e[2]]),
         LAMBDA sorted_authors :
    SelectSeq([x \in 1..columns |->
                  AuthorColumn(sorted_authors, AuthorRows(Len(sorted_authors), columns),
                               columns, x - 1)],
              LAMBDA column : column # <<>>))

\* lines 406-407: the subtraction of the header, in usize.
DataReduction(sum) == sum.total_events - sum.event_with_hits

\* f64 division as {:.2} prints it: 0.0 / 0.0 is NaN, x / 0.0 is infinite,
\* every other quotient is printed to the nearest hundredth.
DivF64(num, den) ==
    IF den = 0 THEN [kind |-> IF num = 0 THEN "NaN" ELSE "inf", hundredths |-> 0]
    ELSE [kind |-> "finite", hundredths |-> (2 * num * 100 + den) \div (2 * den)]

\* lines 390-413: the numbers of the header.  The subtraction is in usize:
\* the summaries of a scan have event_with_hits <= total_events.
print_summary_header(sum) ==
    [event_with_hits |-> sum.event_with_hits,
     total_events |-> sum.total_events,
     reduction |-> DataReduction(sum),
     percent |-> DivF64(DataReduction(sum) * 100, sum.total_events)]

\* lines 366-381
Levels == <<S("critical"), S("high"), S("medium"), S("low"), S("informational")>>

\* lines 417-432: the line of one level.  The percentages are quotients of
\* usize, and a usize division by zero panics.
LevelLine(sum, level) ==
    IF level \in DOMAIN sum.level_with_hits
    THEN IF sum.event_with_hits = 0 THEN Panicked
         ELSE With(sum.level_with_hits[level], LAMBDA hits :
              Ret([level |-> level,
                   total_hits |-> SumValues(hits),
                   total_percent |-> (SumValues(hits) * 100) \div sum.event_with_hits,
                   uniq_hits |-> Cardinality(DOMAIN hits),
                   uniq_percent |->
                       (Cardinality(DOMAIN hits) * 100) \div sum.event_with_hits]))
    ELSE Ret([level |-> level, total_hits |-> 0, total_percent |-> 0,
              uniq_hits |-> 0, uniq_percent |-> 0])

\* lines 415-435: the lines printed, up to the first one that panics.
print_summary_levels(sum) ==
    With([i \in 1..Len(Levels) |-> LevelLine(sum, Levels[i])], LAMBDA lines :
    IF \E i \in 1..Len(Levels) : lines[i].panicked
    THEN [panicked |-> TRUE,
          value |-> SubSeq([i \in 1..Len(Levels) |-> lines[i].value], 1,
                           (CHOOSE i \in 1..Len(Levels) :
                               /\ lines[i].panicked
                               /\ \A j \in 1..(i - 1) : ~lines[j].panicked) - 1)]
    ELSE Ret([i \in 1..Len(Levels) |-> lines[i].value]))

\* Iterator::take(n)
Take(seq, n) == SubSeq(seq, 1, IF Len(seq) < n THEN Len(seq) ELSE n)

\* lines 478, 485, 490: the rows of a column of the table
TopHits == 5

\* lines 481-483, 486: "{rule} ({count})" and "n/a"
HitMsg(entry) == [hit |-> TRUE, rule |-> entry[1], count |-> entry[2]]
NotAvailable == [hit |-> FALSE, rule |-> <<>>, count |-> 0]

\* lines 485-487
RECURSIVE Pad(_)
Pad(msgs) == IF Len(msgs) < TopHits THEN Pad(Append(msgs, NotAvailable)) ELSE msgs

\* hits.iter() of every level that has hits: the order each map chooses.
HitIters(level_with_hits) ==
    {f \in [DOMAIN level_with_hits ->
               UNION {IterOrders(level_with_hits[l]) : l \in DOMAIN level_with_hits}] :
        \A l \in DOMAIN level_with_hits : f[l] \in IterOrders(level_with_hits[l])}

\* lines 475-492: the column of one level, `iter` the entries of its map in
\* the order the map gave them.
TopColumn(level_with_hits, level, iters) ==
    IF level \in DOMAIN level_with_hits
    THEN With(Take(StableSort(iters[level],
                              [e \in Range(iters[level]) |-> 0 - e[2]]), TopHits),
              LAMBDA top_hits : Pad([i \in 1..Len(top_hits) |-> HitMsg(top_hits[i])]))
    ELSE [i \in 1..TopHits |-> NotAvailable]

\* lines 472-493: table_data, a column of messages per level.
print_summary_table(sum, iters) ==
    [i \in 1..Len(Levels) |->
        [level |-> Levels[i], msgs |-> TopColumn(sum.level_with_hits, Levels[i], iters)]]

Min(a, b) == IF a < b THEN a ELSE b

\* lines 606-646: whether the warning is printed, whether the chart is, and
\* the marker_num given to build_time_markers.  length - title.len() and
\* length - side_margin_size * 2 are subtractions in usize: below zero the
\* debug build panics and the release build asks " ".repeat for more than
\* isize::MAX bytes, which panics too.
print_timeline_hist(timestamps, length, side_margin_size) ==
    IF timestamps = <<>>
    THEN Ret([warning |-> FALSE, chart |-> FALSE, marker_num |-> 0])
    ELSE IF Len(timestamps) < 5
    THEN Ret([warning |-> TRUE, chart |-> FALSE, marker_num |-> 0])
    ELSE IF length < Len("Detection Frequency Timeline") \/ length < side_margin_size * 2
    THEN Panicked
    ELSE Ret([warning |-> FALSE, chart |-> TRUE,
              marker_num |-> Min(IF Len(timestamps) < 2 THEN 0 ELSE Len(timestamps) - 2,
                                 18)])

\* Nothing printed yet.
NoReport ==
    [timeline |-> None, authors |-> None, header |-> None, levels |-> None,
     table |-> None]

----------------------------------------------------------------------------
(* Sample inputs *)

IpResolved == <<"10", ".", "0", ".", "0", ".", "1">>
IpUnresolved == <<"8", ".", "8", ".", "8", ".", "8">>

GeoDb == (IpResolved :> [asn |-> S("AS64500"), city |-> S("tokyo"), country |-> S("jp")])

EventTimeRaw == <<"2024-01-02", "T", "03:04:05", "Z">>

EventNoIp ==
    (S("eventTime") :> EventTimeRaw) @@ (S("eventName") :> S("GetObject"))
EventResolvedIp == EventNoIp @@ (S("sourceIPAddress") :> IpResolved)
EventUnresolvedIp ==
    (S("sourceIPAddress") :> IpUnresolved) @@ (S("eventName") :> S("PutObject"))

SampleEvents == {EventNoIp, EventResolvedIp, EventUnresolvedIp}

RuleFull ==
    [title |-> S("t1"), id |-> Some(S("id1")), status |-> Some("Stable"),
     author |-> Some(<<"alice", ",", " ", "bob">>), description |-> Some(S("d1")),
     references |-> Some(<<S("r1"), S("r2")>>), date |-> Some(S("2024-01-01")),
     modified |-> Some(S("2024-02-01")), tags |-> Some(<<S("tag1")>>),
     falsepositives |-> Some(<<>>), level |-> Some("High")]
RuleBare ==
    [title |-> S("t2"), id |-> None, status |-> None, author |-> None,
     description |-> None, references |-> None, date |-> None, modified |-> None,
     tags |-> None, falsepositives |-> None, level |-> None]
RuleCritical == [RuleBare EXCEPT !.title = S("t3"), !.level = Some("Critical"),
                                 !.author = Some(S("carol"))]

SampleRules == {RuleFull, RuleBare, RuleCritical}

MetadataNames ==
    {"title", "id", "status", "author", "description", "references", "date",
     "modified", "tags", "falsepositives", "level"}

SampleKeys ==
    {SigmaPrefix \o S(n) : n \in MetadataNames \cup {"unknown"}}
    \cup {SigmaPrefix \o SigmaPrefix \o S("title"), SigmaPrefix,
          <<"sigma", ".", "ti", "sigma", ".", "tle">>}
    \cup {Dot \o S("eventTime"), Dot \o S("eventName"), Dot \o S("sourceIPAddress"),
          Dot \o S("missing"), Dot}
    \cup {S("SrcASN"), S("SrcCity"), S("SrcCountry"), S("other"), <<>>}

----------------------------------------------------------------------------
(* The extractor on its own: every sample key, event, rule and geo state.  *)

DefaultOptions == [geo_ip |-> "none", output |-> FALSE, output_type |-> 0,
                   raw_output |-> FALSE]

ExtractIdle == arg = None /\ ret = None
ProfileIdle ==
    pc = "idle" /\ profile_file = None /\ geo_search = None /\ profile = <<>>
ReportIdle == terminal_width = 100 /\ report = NoReport
ScanIdle ==
    /\ options = DefaultOptions /\ rules = <<>> /\ wrt = NoWriters
    /\ summary = DefaultSummary /\ cur = None /\ calls = 0 /\ seen = <<>>
    /\ failed = {} /\ exit = "running"

ExtractInit ==
    /\ ProfileIdle /\ ScanIdle /\ ReportIdle
    /\ arg \in [key : SampleKeys, event : SampleEvents, rule : SampleRules,
                geo : {None, Some(GeoDb)}]
    /\ ret = None

\* One call, the arguments as drawn.
CallGetValue ==
    /\ arg # None /\ ret = None
    /\ ret' = Some(get_value_from_event(arg.key, arg.event, arg.rule, arg.geo))
    /\ UNCHANGED <<arg, profileVars, options, scanVars, exit, reportVars>>

SpecExtract == ExtractInit /\ [][CallGetValue]_vars

----------------------------------------------------------------------------
(* Properties of get_value_from_event *)

SyntheticKeys == {S("SrcASN"), S("SrcCity"), S("SrcCountry")}
GeoCase == IsSome(arg.geo) /\ HasField(arg.event, S("sourceIPAddress"))
SourceIp == arg.event[S("sourceIPAddress")]
IpResolves == SourceIp \in DOMAIN Unwrap(arg.geo)

\* C3: with geo enabled and a sourceIPAddress the geo service does not
\* resolve, the call returns the raw address whatever the expression; when
\* the address resolves, SrcASN, SrcCity and SrcCountry return the geo
\* attribute and every other expression returns what the ordinary dispatch
\* returns.
C3_GeoShortCircuit ==
    (ret # None /\ GeoCase) =>
        IF ~IpResolves THEN Unwrap(ret) = Ret(SourceIp)
        ELSE /\ arg.key = S("SrcASN") => Unwrap(ret) = Ret(Unwrap(arg.geo)[SourceIp].asn)
             /\ arg.key = S("SrcCity") => Unwrap(ret) = Ret(Unwrap(arg.geo)[SourceIp].city)
             /\ arg.key = S("SrcCountry") =>
                    Unwrap(ret) = Ret(Unwrap(arg.geo)[SourceIp].country)
             /\ arg.key \notin SyntheticKeys =>
                    Unwrap(ret) = Dispatch(arg.key, arg.event, arg.rule)

C3_Witness ==
    /\ ret # None /\ GeoCase /\ ~IpResolves
    /\ arg.key = SigmaPrefix \o S("title")
    /\ Unwrap(ret) = Ret(IpUnresolved)

\* What the rule's metadata `name` renders as when it is present.
RenderedMetadata(name, rule) ==
    CASE name = "title" -> rule.title
      [] name \in {"status", "level"} -> ToLowercase(S(Unwrap(rule[name])))
      [] name \in {"references", "tags", "falsepositives"} -> DebugVec(Unwrap(rule[name]))
      [] OTHER -> Unwrap(rule[name])

\* C5: for an expression starting with "sigma." (no geo short-circuit taken)
\* the call strips that one prefix and returns without failing: the rule's
\* value when the remaining name is a metadata name and the metadata is
\* present, "-" when it is absent or the name is not a metadata name.
C5_SigmaNeverFails ==
    (/\ ret # None
     /\ StartsWith(arg.key, SigmaPrefix)
     /\ GeoShortCircuit(arg.key, arg.event, arg.geo) = None) =>
        LET rest == StripPrefix(arg.key, SigmaPrefix)
            known == Len(rest) = 1 /\ rest[1] \in MetadataNames
            present == known /\ (rest[1] = "title" \/ IsSome(arg.rule[rest[1]]))
        IN  /\ ~Unwrap(ret).panicked
            /\ Unwrap(ret).value = IF present THEN RenderedMetadata(rest[1], arg.rule)
                                   ELSE Placeholder

----------------------------------------------------------------------------
(* The profile loader on its own: every file of at most MaxLines sample    *)
(* lines, with and without geo.                                            *)

MaxLines == 3

SampleLines ==
    {<<"SrcIP", ":", " ", "'", ".", "sourceIPAddress", "'">>,
     <<" ", "SrcIP", " ", ":", "x">>,
     <<"Level", ":", " ", "sigma", ".", "level">>,
     <<"SrcASN", ":", "'", "'", "mine", "'">>,
     <<"A", ":", " ", "b", ":", "c", " ">>,
     <<"SrcIP", " ", "comment">>,
     <<>>}

RECURSIVE SeqsUpTo(_, _)
SeqsUpTo(set, n) ==
    IF n = 0 THEN {<<>>}
    ELSE LET shorter == SeqsUpTo(set, n - 1)
         IN  shorter \cup {Append(q, x) : q \in shorter, x \in set}

ProfileInit ==
    /\ ExtractIdle /\ ScanIdle /\ ReportIdle
    /\ pc = "profile"
    /\ profile_file \in {Some(f) : f \in SeqsUpTo(SampleLines, MaxLines)}
    /\ geo_search \in {None, Some(GeoDb)}
    /\ profile = <<>>

\* aws_detect line 218: let profile = load_profile(..., &geo_search)
LoadProfile ==
    /\ pc = "profile" /\ IsSome(profile_file)
    /\ profile' = load_profile(Unwrap(profile_file), geo_search)
    /\ pc' = "rules"
    /\ UNCHANGED <<profile_file, geo_search, extractVars, options, scanVars, exit,
                   reportVars>>

SpecProfile == ProfileInit /\ [][LoadProfile]_vars

HasColon(line) == \E i \in 1..Len(line) : line[i] = ":"
ValidLines == SelectSeq(Unwrap(profile_file), HasColon)
\* The positions of `profile` that come one, two or three after a SrcIP entry.
AfterSrcIp == {i \in 1..Len(profile) :
                 \E d \in 1..3 : i - d >= 1 /\ profile[i - d][1] = S("SrcIP")}
RECURSIVE Without(_, _, _)
Without(q, drop, i) ==
    IF i > Len(q) THEN <<>>
    ELSE (IF i \in drop THEN <<>> ELSE <<q[i]>>) \o Without(q, drop, i + 1)

\* C4: load_profile returns one entry per line holding a colon, in file
\* order; with geo enabled every SrcIP entry is immediately followed by
\* (SrcASN,SrcASN), (SrcCity,SrcCity), (SrcCountry,SrcCountry), and the
\* other entries keep their order; with geo disabled nothing is added.
C4_ProfileExpansion ==
    (pc = "rules" /\ IsSome(profile_file)) =>
        LET own == IF IsSome(geo_search)
                   THEN Without(profile, AfterSrcIp, 1)
                   ELSE profile
        IN  /\ Len(own) = Len(ValidLines)
            /\ \A i \in 1..Len(own) : own[i] = ProfileEntry(SplitN2(ValidLines[i], ":"))
            /\ IsSome(geo_search) =>
                 \A i \in 1..Len(profile) :
                    profile[i][1] = S("SrcIP") =>
                        /\ i + 3 <= Len(profile)
                        /\ SubSeq(profile, i + 1, i + 3) = SyntheticEntries

C4_Witness ==
    /\ pc = "rules" /\ IsSome(geo_search)
    /\ Len(profile) = 5
    /\ profile[2][1] = S("SrcIP")
    /\ profile[5][1] = S("SrcCountry")
    /\ profile[1][1] = S("Level")

----------------------------------------------------------------------------
(* aws_detect: one run of the command.  The command line is fixed at the   *)
(* start; the files, the rules and the events are read as the run reaches  *)
(* them.                                                                   *)

MaxEvents == 2

\* Without an output path the output type stays at its default.
OutputTypeCodes == {0, 1, 2, 3, 4, 5}
RunOptions ==
    {o \in [geo_ip : {"none", "ok", "bad"}, output : BOOLEAN,
            output_type : OutputTypeCodes, raw_output : BOOLEAN] :
        o.output \/ o.output_type = 1}

DefaultProfileFile ==
    <<  <<"Timestamp", ":", " ", "'", ".", "eventTime", "'">>,
        <<"RuleTitle", ":", " ", "'", "sigma", ".", "title", "'">>,
        <<"Level", ":", " ", "'", "sigma", ".", "level", "'">>,
        <<"SrcIP", ":", " ", "'", ".", "sourceIPAddress", "'">>  >>
\* A profile with a column named like a field of the event, a column name
\* used twice, and a column that is neither an event field nor rule metadata.
ClashProfileFile ==
    <<  <<"eventName", ":", " ", "sigma", ".", "id">>,
        <<"Level", ":", " ", "sigma", ".", "level">>,
        <<"eventName", ":", " ", "sigma", ".", "title">>,
        <<"Other", ":", " ", "other">>  >>
RunProfileFiles == {None, Some(DefaultProfileFile), Some(ClashProfileFile)}

RunRuleLists == {<<>>, <<RuleFull, RuleCritical>>}

EventTimeLater == <<"2024-01-03", "T", "00:00:00", "Z">>
EventUnresolvedIpTimed == EventUnresolvedIp @@ (S("eventTime") :> EventTimeLater)
RunEvents == {EventResolvedIp, EventUnresolvedIpTimed}

\* The event time as the scan records it: seconds since the epoch.
TimestampOf(event) ==
    IF event[S("eventTime")] = EventTimeRaw THEN 1704164645 ELSE 1704240000

FlushOrder == <<"csv", "json", "jsonl">>
ActiveSinks(w) == {x \in {"std", "csv", "json", "jsonl"} : IsSome(w[x])}
\* At most one sink fails during one call.
FailureChoices(w) == {{}} \cup {{x} : x \in ActiveSinks(w)}

RunInit ==
    /\ ExtractIdle /\ ReportIdle
    /\ pc = "geo"
    /\ options \in RunOptions
    /\ profile_file = None /\ geo_search = None /\ profile = <<>>
    /\ rules = <<>> /\ wrt = NoWriters /\ summary = DefaultSummary
    /\ cur = None /\ calls = 0 /\ seen = <<>> /\ failed = {} /\ exit = "running"

\* lines 204-217
GeoInit ==
    /\ pc = "geo"
    /\ \/ /\ options.geo_ip = "none"
          /\ geo_search' = None
          /\ pc' = "profile"
          /\ exit' = exit
       \/ /\ options.geo_ip = "ok"
          /\ geo_search' = Some(GeoDb)
          /\ pc' = "profile"
          /\ exit' = exit
       \/ /\ options.geo_ip = "bad"
          /\ geo_search' = None
          /\ pc' = "done"
          /\ exit' = "returned"
    /\ UNCHANGED <<profile_file, profile, options, scanVars, extractVars, reportVars>>

\* line 218 and lines 649-654: the profile file is read, or the run panics
\* when it cannot be opened.
ReadProfile ==
    /\ pc = "profile"
    /\ \E file \in RunProfileFiles :
        /\ profile_file' = file
        /\ IF IsSome(file)
           THEN /\ profile' = load_profile(Unwrap(file), geo_search)
                /\ pc' = "rules"
                /\ exit' = exit
           ELSE /\ profile' = profile
                /\ pc' = "done"
                /\ exit' = "panic"
    /\ UNCHANGED <<geo_search, options, scanVars, extractVars, reportVars>>

\* lines 219-228; the level filter keeps every rule loaded.
LoadRules ==
    /\ pc = "rules"
    /\ \E loaded \in RunRuleLists :
        /\ rules' = loaded
        /\ IF loaded = <<>>
           THEN pc' = "done" /\ exit' = "returned"
           ELSE pc' = "open" /\ exit' = exit
    /\ UNCHANGED <<profile_file, geo_search, profile, options, wrt, summary, cur,
                   calls, seen, failed, extractVars, reportVars>>

\* lines 233-295: the sinks are opened and the CSV header is written; that
\* write is unwrapped, so its failure panics.
OpenSinks ==
    /\ pc = "open"
    /\ LET opened == OpenWriters(options, profile)
       IN  \/ /\ wrt' = opened
              /\ pc' = "scan"
              /\ UNCHANGED <<failed, exit>>
           \/ /\ IsSome(opened.csv)
              /\ wrt' = [opened EXCEPT !.csv = Some(Sink(<<>>))]
              /\ failed' = failed \cup {"csv"}
              /\ pc' = "done"
              /\ exit' = "panic"
    /\ UNCHANGED <<profile_file, geo_search, profile, options, rules, summary, cur,
                   calls, seen, extractVars, reportVars>>

\* The scan takes the next event of the input and counts it.
ScanEvent ==
    /\ pc = "scan" /\ cur = None
    /\ summary.total_events < MaxEvents
    /\ \E payload \in RunEvents, m \in SUBSET (1..Len(rules)) :
        cur' = Some([payload |-> payload, json |-> payload, matches |-> m,
                     next |-> 1, counted |-> FALSE])
    /\ summary' = record_event(summary)
    /\ seen' = Append(seen, 0)
    /\ UNCHANGED <<pc, profile_file, geo_search, profile, options, rules, wrt, calls,
                   failed, exit, extractVars, reportVars>>

NextMatch(c) == {i \in c.matches : i >= c.next /\ \A j \in c.matches : j >= c.next => i <= j}

\* The next rule that matches the event: the hit is recorded and the record is
\* written to the sinks.
Hit ==
    /\ pc = "scan" /\ cur # None
    /\ \E i \in NextMatch(Unwrap(cur)), bad \in FailureChoices(wrt) :
       \E out \in {write_record(profile, Unwrap(cur).json, Unwrap(cur).json, rules[i],
                                wrt, geo_search, options.raw_output, bad)} :
        /\ summary' = record_hit(summary, ~Unwrap(cur).counted,
                                 TimestampOf(Unwrap(cur).json),
                                 ToLowercase(S(Unwrap(rules[i].level))), rules[i].title,
                                 Credited(rules[i]))
        /\ seen' = [seen EXCEPT ![Len(seen)] = @ + 1]
        /\ wrt' = out.wrt
        /\ failed' = failed \cup out.failed
        /\ IF out.panicked
           THEN /\ pc' = "done" /\ exit' = "panic"
                /\ UNCHANGED <<cur, calls>>
           ELSE /\ cur' = Some([Unwrap(cur) EXCEPT !.json = out.json, !.next = i + 1,
                                                   !.counted = TRUE])
                /\ calls' = calls + 1
                /\ UNCHANGED <<pc, exit>>
    /\ UNCHANGED <<profile_file, geo_search, profile, options, rules, extractVars, reportVars>>

\* No further rule matches the event.
EndEvent ==
    /\ pc = "scan" /\ cur # None
    /\ NextMatch(Unwrap(cur)) = {}
    /\ cur' = None
    /\ UNCHANGED <<pc, profile_file, geo_search, profile, options, rules, wrt, summary,
                   calls, seen, failed, exit, extractVars, reportVars>>

\* The input is exhausted.
ScanDone ==
    /\ pc = "scan" /\ cur = None
    /\ pc' = "flush"
    /\ UNCHANGED <<profile_file, geo_search, profile, options, scanVars, exit,
                   extractVars, reportVars>>

\* The flushes with the JSON and JSONL sinks left out.
RECURSIVE FlushFirst_CsvOnly(_, _, _)
FlushFirst_CsvOnly(w, i, upto) ==
    IF i > upto THEN w
    ELSE LET x == FlushOrder[i]
         IN  FlushFirst_CsvOnly(IF IsSome(w[x]) /\ x = "csv"
                                THEN [w EXCEPT ![x] = Some([Unwrap(w[x]) EXCEPT !.flushes = @ + 1])]
                                ELSE w,
                                i + 1, upto)

\* lines 319-327: flush().unwrap() on the CSV, JSON and JSONL sinks in turn;
\* `upto` sinks are flushed, and the next one, if any is left, fails.
RECURSIVE FlushFirst(_, _, _)
FlushFirst(w, i, upto) ==
    IF i > upto THEN w
    ELSE LET x == FlushOrder[i]
         IN  FlushFirst(IF IsSome(w[x])
                        THEN [w EXCEPT ![x] = Some([Unwrap(w[x]) EXCEPT !.flushes = @ + 1])]
                        ELSE w,
                        i + 1, upto)

Flush ==
    /\ pc = "flush"
    /\ \/ /\ wrt' = FlushFirst(wrt, 1, 3)
          /\ pc' = "render"
          /\ UNCHANGED <<failed, exit>>
       \/ \E i \in 1..3 :
            /\ IsSome(wrt[FlushOrder[i]])
            /\ wrt' = FlushFirst(wrt, 1, i - 1)
            /\ failed' = failed \cup {FlushOrder[i]}
            /\ pc' = "done"
            /\ exit' = "panic"
    /\ UNCHANGED <<profile_file, geo_search, profile, options, rules, summary, cur,
                   calls, seen, extractVars, reportVars>>

\* The report, with no_frequency and no_summary unset.  A run without a
\* terminal has terminal_width = 100 (lines 329-332).

\* lines 333-335
PrintTimeline ==
    /\ pc = "render"
    /\ \E out \in {print_timeline_hist(summary.timestamps, terminal_width, 3)} :
        /\ report' = [report EXCEPT !.timeline = Some(out.value)]
        /\ pc' = IF out.panicked THEN "done" ELSE "authors"
        /\ exit' = IF out.panicked THEN "panic" ELSE exit
    /\ UNCHANGED <<profile_file, geo_search, profile, options, scanVars,
                   extractVars, terminal_width>>

\* lines 348-354
PrintAuthors ==
    /\ pc = "authors"
    /\ \E iter \in IterOrders(authors_count(summary.author_titles)) :
        report' = [report EXCEPT !.authors =
            Some(print_detected_rule_authors(iter, table_column_num(terminal_width)))]
    /\ pc' = "summary"
    /\ UNCHANGED <<profile_file, geo_search, profile, options, scanVars, exit,
                   extractVars, terminal_width>>

\* lines 356-358, 382
PrintSummaryHeader ==
    /\ pc = "summary"
    /\ report' = [report EXCEPT !.header = Some(print_summary_header(summary))]
    /\ pc' = "levels"
    /\ UNCHANGED <<profile_file, geo_search, profile, options, scanVars, exit,
                   extractVars, terminal_width>>

\* line 383
PrintSummaryLevels ==
    /\ pc = "levels"
    /\ \E out \in {print_summary_levels(summary)} :
        /\ report' = [report EXCEPT !.levels = Some(out.value)]
        /\ pc' = IF out.panicked THEN "done" ELSE "table"
        /\ exit' = IF out.panicked THEN "panic" ELSE exit
    /\ UNCHANGED <<profile_file, geo_search, profile, options, scanVars,
                   extractVars, terminal_width>>

\* lines 386, 360-363: the table is printed and the command returns.
PrintSummaryTable ==
    /\ pc = "table"
    /\ \E iters \in HitIters(summary.level_with_hits) :
        report' = [report EXCEPT !.table = Some(print_summary_table(summary, iters))]
    /\ pc' = "done"
    /\ exit' = "returned"
    /\ UNCHANGED <<profile_file, geo_search, profile, options, scanVars,
                   extractVars, terminal_width>>

\* lines 328-362: the report is printed and the command returns.
Render ==
    \/ PrintTimeline \/ PrintAuthors \/ PrintSummaryHeader \/ PrintSummaryLevels
    \/ PrintSummaryTable

Next ==
    \/ GeoInit \/ ReadProfile \/ LoadRules \/ OpenSinks
    \/ ScanEvent \/ Hit \/ EndEvent \/ ScanDone
    \/ Flush \/ Render

Spec == RunInit /\ [][Next]_vars

----------------------------------------------------------------------------
(* Properties of one run *)

Out(x) == Unwrap(wrt[x]).out

\* C1: after n calls of write_record, none of which (nor the header's write)
\* failed, the CSV sink holds its header and n rows and the active JSON or
\* JSONL sink holds n objects, in every output mode and content mode.
C1_EverySinkGetsEveryRecord ==
    failed = {} =>
        /\ IsSome(wrt.csv) => Len(Out("csv")) = calls + 1
        /\ IsSome(wrt.json) => Len(Out("json")) = calls
        /\ IsSome(wrt.jsonl) => Len(Out("jsonl")) = calls

C1_Witness ==
    /\ calls = 3 /\ failed = {} /\ options.raw_output
    /\ IsSome(wrt.csv) /\ IsSome(wrt.jsonl)
    /\ Len(Out("csv")) = 4 /\ Len(Out("jsonl")) = 3

\* C2: event_with_hits never exceeds total_events; it is the number of
\* events scanned so far that had at least one hit, however many rules each
\* matched; and the header's total_events - event_with_hits is never
\* negative.
C2_EventsWithHits ==
    /\ summary.total_events = Len(seen)
    /\ summary.event_with_hits = Cardinality({i \in 1..Len(seen) : seen[i] >= 1})
    /\ summary.event_with_hits <= summary.total_events
    /\ DataReduction(summary) >= 0

C2_Witness ==
    /\ seen = <<2, 0>>
    /\ summary.event_with_hits = 1 /\ summary.total_events = 2

\* C7: a write that fails on any sink ends the run in a panic; no run goes
\* on after a failed write.
C7_WriteFailureIsFatal == failed # {} => exit = "panic"

\* The columns of the profile whose expression starts with "sigma.".
SigmaColumns == {i \in 1..Len(profile) : StartsWith(profile[i][2], SigmaPrefix)}
LastSigmaColumn(k) ==
    CHOOSE i \in SigmaColumns :
        profile[i][1] = k /\ \A j \in SigmaColumns : profile[j][1] = k => j <= i
\* A write_record call has just returned: the event it was given and the rule.
JustWritten == pc = "scan" /\ cur # None /\ Unwrap(cur).counted
WrittenRule == rules[Unwrap(cur).next - 1]

\* C9: in raw mode the object given to the JSON or JSONL sink is the event
\* payload with one key per sigma column laid over it, the key the column's
\* name and the value what the extractor returns for the column's expression
\* (for a name used twice, the later column's); every other key of the
\* payload keeps its value, no other key is added, and the payload of the
\* caller is as it was.
C9_RawOverlay ==
    (JustWritten /\ options.raw_output) =>
        /\ Unwrap(cur).json = Unwrap(cur).payload
        /\ \A x \in {"json", "jsonl"} \cap ActiveSinks(wrt) :
            LET obj == Out(x)[Len(Out(x))].obj
                payload == Unwrap(cur).payload
                names == {profile[i][1] : i \in SigmaColumns}
            IN  /\ DOMAIN obj = DOMAIN payload \cup names
                /\ \A k \in names :
                     obj[k] = get_value_from_event(profile[LastSigmaColumn(k)][2],
                                  payload, WrittenRule, geo_search).value
                /\ \A k \in DOMAIN payload \ names : obj[k] = payload[k]

C9_Witness ==
    /\ JustWritten /\ options.raw_output /\ IsSome(wrt.json)
    /\ profile_file = Some(ClashProfileFile)
    /\ Out("json")[Len(Out("json"))].obj[S("eventName")] = S("t3")
    /\ Out("json")[Len(Out("json"))].obj[S("eventTime")] = EventTimeRaw

----------------------------------------------------------------------------
(* The order of one run *)

FileSinkNames == {"csv", "json", "jsonl"}
OpenFileSinks == ActiveSinks(wrt) \cap FileSinkNames
Flushes(x) == Unwrap(wrt[x]).flushes
RenderStages == {"render", "authors", "summary", "levels", "table"}

\* What C13 says of a state.
C13_State ==
    \* before the sinks are opened, and in a run that stopped for an unreadable
    \* geo database or for want of rules, no sink is open and nothing is printed
    /\ (pc \in {"geo", "profile", "rules", "open"} \/ options.geo_ip = "bad" \/ rules = <<>>)
        => wrt = NoWriters /\ report = NoReport /\ calls = 0
    \* the header is the first row of the CSV sink and no other row
    /\ (IsSome(wrt.csv) /\ Out("csv") # <<>>) =>
        /\ Out("csv")[1] = Header(profile)
        /\ \A i \in 2..Len(Out("csv")) : Out("csv")[i] # Header(profile)
    \* no sink is flushed before the scan is over, none more than once
    /\ \A x \in OpenFileSinks :
        /\ Flushes(x) <= 1
        /\ pc \in {"scan", "flush"} => Flushes(x) = 0
    \* the report is printed when every open file sink has been flushed once
    /\ (pc \in RenderStages \/ report # NoReport \/ exit = "returned") =>
        \A x \in OpenFileSinks : Flushes(x) = 1

\* What C13 says of a step.
C13_Step ==
    \* the sinks are opened once
    /\ wrt # NoWriters => ActiveSinks(wrt') = ActiveSinks(wrt)
    \* no record is written to a sink that has been flushed
    /\ \A x \in OpenFileSinks :
        Flushes(x) >= 1 => Unwrap(wrt'[x]).out = Unwrap(wrt[x]).out
    \* a step of the report leaves the sinks and the summary as they are
    /\ report' # report => wrt' = wrt /\ summary' = summary /\ calls' = calls

\* C13: in every run the sinks are opened once, the CSV header is the first
\* row of the CSV sink and is written once, every open file sink is flushed
\* exactly once, after the last record and before the first step of the
\* report, no record is written after a flush, and a run that stops before
\* the scan (geo database unreadable, no rules) opens no sink and writes
\* nothing.
C13_RunOrder == []C13_State /\ [][C13_Step]_vars

C13_Witness ==
    /\ pc = "done" /\ exit = "returned" /\ calls = 3
    /\ OpenFileSinks = {"csv", "jsonl"}
    /\ Flushes("csv") = 1 /\ Flushes("jsonl") = 1
    /\ Len(Out("csv")) = 4 /\ Len(Out("jsonl")) = 3
    /\ IsSome(report.timeline) /\ IsSome(report.authors) /\ IsSome(report.table)

----------------------------------------------------------------------------
(* The opening of the sinks on its own: every output type code, with and   *)
(* without an output path.                                                 *)

SinksInit ==
    /\ ExtractIdle /\ ReportIdle
    /\ pc = "open"
    /\ options \in [geo_ip : {"none"}, output : BOOLEAN, output_type : 0..255,
                    raw_output : BOOLEAN]
    /\ profile_file = Some(DefaultProfileFile) /\ geo_search = None
    /\ profile = load_profile(DefaultProfileFile, None)
    /\ rules = <<RuleFull, RuleCritical>>
    /\ wrt = NoWriters /\ summary = DefaultSummary
    /\ cur = None /\ calls = 0 /\ seen = <<>> /\ failed = {} /\ exit = "running"

SpecSinks == SinksInit /\ [][OpenSinks]_vars

\* C6: without an output path only the terminal sink is open; with one the
\* terminal sink is not, the CSV sink is open iff the mode is Csv, CsvAndJson
\* or CsvAndJsonl (codes 1, 4, 5 and every unrecognized code), the JSON sink
\* iff it is Json or CsvAndJson (2, 4), the JSONL sink iff it is Jsonl or
\* CsvAndJsonl (3, 5).  JSON and JSONL are never both open, nor the terminal
\* sink together with a file sink.
C6_SinksMatchMode ==
    /\ pc # "open" =>
        IF options.output
        THEN ActiveSinks(wrt) =
                (IF options.output_type \in {2, 3} THEN {} ELSE {"csv"})
                \cup (IF options.output_type \in {2, 4} THEN {"json"} ELSE {})
                \cup (IF options.output_type \in {3, 5} THEN {"jsonl"} ELSE {})
        ELSE ActiveSinks(wrt) = {"std"}
    /\ ~(IsSome(wrt.json) /\ IsSome(wrt.jsonl))
    /\ IsSome(wrt.std) => ActiveSinks(wrt) = {"std"}

C6_Witness ==
    /\ pc = "scan" /\ options.output /\ options.output_type = 200
    /\ ActiveSinks(wrt) = {"csv"}
    /\ Out("csv") = <<  <<S("Timestamp"), S("RuleTitle"), S("Level"), S("SrcIP")>>  >>

----------------------------------------------------------------------------
(* The report on its own: the summary of a scan, rendered at every         *)
(* terminal width that changes the number of columns.                      *)

MaxHitsPerRule == 2

RuleAlice == [RuleBare EXCEPT !.title = S("t4"), !.level = Some("High"),
                              !.author = Some(S("alice"))]
RuleLow ==
    [RuleBare EXCEPT !.title = S("t5"), !.level = Some("Low"),
                     !.author = Some(<<"dave", ",", "the_detection_engineering_team">>)]
ReportRules == <<RuleFull, RuleCritical, RuleAlice, RuleLow>>

TerminalWidths == {80, 105, 106, 139, 140, 174, 175, 210, 211}

\* The hits of a scan in which rule r matches h[r] events, in scan order:
\* <<k, r>> is the k-th hit of rule r.
ReportHits(h) ==
    SelectSeq([i \in 1..(MaxHitsPerRule * Len(ReportRules)) |->
                  <<((i - 1) \div Len(ReportRules)) + 1, ((i - 1) % Len(ReportRules)) + 1>>],
              LAMBDA hit : h[hit[2]] >= hit[1])

\* The summary the scan leaves after the hits from the i-th on.  With
\* `grouped` the k-th hits of all rules are on one event, otherwise every hit
\* is on an event of its own; the events are an hour apart.
RECURSIVE Replay(_, _, _, _)
Replay(sum, hits, i, grouped) ==
    IF i > Len(hits) THEN sum
    ELSE LET first_hit == ~grouped \/ i = 1 \/ hits[i - 1][1] # hits[i][1]
             rule == ReportRules[hits[i][2]]
         IN  Replay(record_hit(IF first_hit THEN record_event(sum) ELSE sum, first_hit,
                               1704164645 + 3600 * (IF grouped THEN hits[i][1] ELSE i),
                               ToLowercase(S(Unwrap(rule.level))), rule.title,
                               Credited(rule)),
                    hits, i + 1, grouped)

\* ... and `extra` events without a hit at the end.
ReportScan(h, grouped, extra) ==
    With(Replay(DefaultSummary, ReportHits(h), 1, grouped), LAMBDA sum :
         [sum EXCEPT !.total_events = @ + extra])

ReportSummaries ==
    {ReportScan(h, grouped, extra) :
        h \in [1..Len(ReportRules) -> 0..MaxHitsPerRule],
        grouped \in BOOLEAN, extra \in {0, 1}}

ReportInit ==
    /\ ExtractIdle
    /\ pc = "render"
    /\ options = DefaultOptions
    /\ profile_file = Some(DefaultProfileFile) /\ geo_search = None
    /\ profile = load_profile(DefaultProfileFile, None)
    /\ rules = ReportRules
    /\ wrt = OpenWriters(DefaultOptions, profile)
    /\ summary \in ReportSummaries
    /\ cur = None /\ calls = 0 /\ seen = <<>> /\ failed = {} /\ exit = "running"
    /\ terminal_width \in TerminalWidths
    /\ report = NoReport

ReportNext == Render

SpecReport == ReportInit /\ [][ReportNext]_vars

\* C8: a header printed for a summary with total_events = 0 reports a data
\* reduction of 0%, and the level lines printed for a summary with
\* event_with_hits = 0 are all there, without a panic, each with 0% for the
\* total and for the unique percentage.
C8_ZeroDivisorsRenderZero ==
    /\ (IsSome(report.header) /\ summary.total_events = 0) =>
        Unwrap(report.header).percent = [kind |-> "finite", hundredths |-> 0]
    /\ (IsSome(report.levels) /\ summary.event_with_hits = 0) =>
        /\ exit # "panic"
        /\ Len(Unwrap(report.levels)) = Len(Levels)
        /\ \A i \in 1..Len(Unwrap(report.levels)) :
            /\ Unwrap(report.levels)[i].total_percent = 0
            /\ Unwrap(report.levels)[i].uniq_percent = 0

\* The author names of the report rules, ascending.
AuthorNames == <<"alice", "bob", "carol", "dave", "the_detection_engineering_team">>
NameRank(author) == CHOOSE i \in 1..Len(AuthorNames) : S(AuthorNames[i]) = author

\* The authors by count descending, ties by name ascending.
Leaderboard(counts) ==
    CHOOSE seq \in IterOrders(counts) :
        \A i, j \in 1..Len(seq) :
            i < j => \/ seq[i][2] > seq[j][2]
                     \/ seq[i][2] = seq[j][2] /\ NameRank(seq[i][1]) < NameRank(seq[j][1])

\* `list` in ceil(n / columns) rows, each column filled top to bottom before
\* the next one to its right.
ColumnMajor(list, columns) ==
    LET rows == (Len(list) + columns - 1) \div columns
    IN  SelectSeq([c \in 1..columns |->
                      [r \in 1..Cardinality({r \in 1..rows : (c - 1) * rows + r <= Len(list)})
                          |-> AuthorCell(list[(c - 1) * rows + r])]],
                  LAMBDA column : column # <<>>)

\* C10: the author table holds the authors by count descending, ties by name
\* ascending, in ceil(authors / columns) rows, each column filled top to
\* bottom before the next one to its right.
C10_AuthorLeaderboard ==
    IsSome(report.authors) =>
        Unwrap(report.authors) =
            ColumnMajor(Leaderboard(authors_count(summary.author_titles)),
                        table_column_num(terminal_width))

\* The titles of the report rules, ascending.
TitleNames == <<"t1", "t3", "t4", "t5">>
TitleRank(title) == CHOOSE i \in 1..Len(TitleNames) : S(TitleNames[i]) = title

\* The rules of a level by hit count descending, ties by title ascending.
Ranking(hits) ==
    CHOOSE seq \in IterOrders(hits) :
        \A i, j \in 1..Len(seq) :
            i < j => \/ seq[i][2] > seq[j][2]
                     \/ seq[i][2] = seq[j][2] /\ TitleRank(seq[i][1]) < TitleRank(seq[j][1])

\* The first five of the ranking, padded with "n/a" to five rows.
TopFive(hits) ==
    With(Take(Ranking(hits), TopHits),
         LAMBDA top : Pad([i \in 1..Len(top) |-> HitMsg(top[i])]))

\* C11: the column of each of the five levels holds the rules of the level
\* with the five highest hit counts, by count descending and, for equal
\* counts, by title ascending, padded with "n/a" to five rows (five "n/a"
\* for a level without hits): one table for one summary, whatever the run.
C11_TopFiveTable ==
    IsSome(report.table) =>
        /\ Len(Unwrap(report.table)) = Len(Levels)
        /\ \A i \in 1..Len(Levels) :
            /\ Unwrap(report.table)[i].level = Levels[i]
            /\ Unwrap(report.table)[i].msgs =
                    IF Levels[i] \in DOMAIN summary.level_with_hits
                    THEN TopFive(summary.level_with_hits[Levels[i]])
                    ELSE [k \in 1..TopHits |-> NotAvailable]

\* C12: for fewer than 5 timestamps (none included) the warning is printed
\* and no chart; for 5 or more the chart is printed, with at most 18 time
\* markers, and no warning.
C12_TimelineWarningOrChart ==
    IsSome(report.timeline) =>
        /\ exit # "panic"
        /\ IF Len(summary.timestamps) < 5
           THEN /\ Unwrap(report.timeline).warning
                /\ ~Unwrap(report.timeline).chart
           ELSE /\ ~Unwrap(report.timeline).warning
                /\ Unwrap(report.timeline).chart
                /\ Unwrap(report.timeline).marker_num <= 18

\* The cells of the author table that hold `author`.
CellsOf(table, author) ==
    {xy \in UNION {{<<x, y>> : y \in 1..Len(table[x])} : x \in 1..Len(table)} :
        table[xy[1]][xy[2]].author = author}

RECURSIVE CellCount(_)
CellCount(table) == IF table = <<>> THEN 0 ELSE Len(Head(table)) + CellCount(Tail(table))

\* C14: every author of author_titles is in exactly one cell of the author
\* table, and the table has as many cells as there are authors.
C14_EveryAuthorOnce ==
    IsSome(report.authors) =>
        /\ \A a \in DOMAIN summary.author_titles :
                Cardinality(CellsOf(Unwrap(report.authors), a)) = 1
        /\ CellCount(Unwrap(report.authors)) = Cardinality(DOMAIN summary.author_titles)

====
